---- MODULE Spec2Model ----
(***************************************************************************)
(* Model of the asynchronous executor (src/src/executor.c), its reactor    *)
(* (src/src/mio.c) and the future combinators                              *)
(* (src/pw459596/src/future_combinators.c).                                *)
(*                                                                         *)
(* The program is single threaded.  executor_run is modelled by its loop   *)
(* steps: the entry test of the outer loop, one iteration of the inner     *)
(* drain loop (pop, progress, clear is_active), and one call of mio_poll   *)
(* followed by the outer loop test.  executor_spawn called by the user is  *)
(* an action of its own.  Leaf futures are not part of the repository:     *)
(* each progress call of a leaf chooses its result and the reactor and     *)
(* waker calls it makes.                                                   *)
(***************************************************************************)
EXTENDS Integers, Sequences, FiniteSets, TLC

\* ------------------------------------------------------------------ bounds

\* Largest ready-queue capacity passed to executor_create (a positive
\* integer).
MaxCap == 2

\* Most Pending returns of a leaf of the nested ThenFutures before it completes.
MaxPend == 1

\* ------------------------------------------------------- program constants

MAX_EVENTS == 64

FUTURE_PENDING == "PENDING"
FUTURE_COMPLETED == "COMPLETED"
FUTURE_FAILURE == "FAILURE"

FUTURE_SUCCESS == 0
THEN_FUTURE_ERR_FUT1_FAILED == 1
THEN_FUTURE_ERR_FUT2_FAILED == 2
JOIN_FUTURE_ERR_FUT1_FAILED == 3
JOIN_FUTURE_ERR_FUT2_FAILED == 4
JOIN_FUTURE_ERR_BOTH_FUTS_FAILED == 5

SELECT_COMPLETED_NONE == "NONE"
SELECT_COMPLETED_FUT1 == "COMPLETED_FUT1"
SELECT_COMPLETED_FUT2 == "COMPLETED_FUT2"
SELECT_FAILED_FUT1 == "FAILED_FUT1"
SELECT_FAILED_FUT2 == "FAILED_FUT2"
SELECT_FAILED_BOTH == "FAILED_BOTH"

\* The null pointer, for a future reference and for an arg/ok slot.
NoFut == "null"
NULL == 0

\* ---------------------------------------------------------------- futures

\* What K is in a run of the program: absent, future_then(A, B),
\* future_join(A, B), future_join(B, A), future_select(A, B), or
\* future_then(N, C) over N = future_then(A, B).
Kinds == {"none", "then", "join", "join_swapped", "select", "then_then"}

VARIABLES
    kind      \* what K is

\* Two leaf futures and one combinator future K over them; in the nested
\* program, three leaves and the combinators K and N.
Leaves == IF kind = "then_then" THEN {"A", "B", "C"} ELSE {"A", "B"}
Futures == Leaves \cup (IF kind = "then_then" THEN {"K", "N"} ELSE {"K"})

JoinKinds == {"join", "join_swapped"}

\* Which combinator the future f is.
KindOf(f) ==
    IF kind = "then_then" THEN "then" ELSE kind

\* Two nestings of three leaves a, b, c under future_then, each over its own
\* copy of the leaves: L = then(Lab, Lc) with Lab = then(La, Lb), and
\* R = then(Ra, Rbc) with Rbc = then(Rb, Rc).
ChainLeaves == {"La", "Lb", "Lc", "Ra", "Rb", "Rc"}
ChainThens == {"L", "Lab", "R", "Rbc"}
ChainFutures == ChainLeaves \cup ChainThens
ChainRoots == {"L", "R"}

Fut1(f) ==
    CASE f = "L" -> "Lab"
      [] f = "Lab" -> "La"
      [] f = "R" -> "Ra"
      [] f = "Rbc" -> "Rb"
      [] f = "N" -> "A"
      [] OTHER -> IF kind = "join_swapped" THEN "B"
                  ELSE IF kind = "then_then" THEN "N"
                  ELSE "A"

Fut2(f) ==
    CASE f = "L" -> "Lc"
      [] f = "Lab" -> "Lb"
      [] f = "R" -> "Rbc"
      [] f = "Rbc" -> "Rc"
      [] f = "N" -> "B"
      [] OTHER -> IF kind = "join_swapped" THEN "A"
                  ELSE IF kind = "then_then" THEN "C"
                  ELSE "B"

\* The futures the user passes to executor_spawn.
RootsOf(k) == IF k = "none" THEN Leaves ELSE {"K"}

\* The leaves below a future.
LeavesOf(k, f) ==
    IF f = "K" THEN Leaves ELSE IF f = "N" THEN {"A", "B"} ELSE {f}

\* The descriptor a leaf registers, the value it completes with and the error
\* code it fails with.
FdOf(l) == CASE l = "A" -> 1 [] l = "B" -> 2 [] l = "C" -> 3
Fds == {FdOf(l) : l \in Leaves}
LeafOk(l) == CASE l = "A" -> 7 [] l = "B" -> 42 [] l = "C" -> 99
LeafErr(l) == CASE l = "A" -> 11 [] l = "B" -> 12 [] l = "C" -> 13

\* What a leaf does in one progress call: the call it makes on the reactor or
\* on its waker, if any, and the state it returns.
LeafChoices ==
    [act : {"none", "register", "unregister", "wake"},
     res : {FUTURE_PENDING, FUTURE_COMPLETED, FUTURE_FAILURE}]

VARIABLES
    fut,      \* Future: is_active, arg, ok, errcode of every future
    comb,     \* ThenFuture / JoinFuture fields of a combinator
    leaf,     \* the terminal state a leaf has reached, or FUTURE_PENDING
    que,      \* FutQue: futs, size, max_size, front, back
    mio,      \* Mio: registered_count, and the epoll interest list
    pc,       \* "idle": executor_run is not running; "drain": it is in its
              \* loops; "returned": it has returned and nothing was spawned
              \* since; "exited": mio_poll has ended the process
    hist      \* history of the run, read only by the properties

vars == <<kind, fut, comb, leaf, que, mio, pc, hist>>

\* The program state a call works on: the variables as one record.
State ==
    [fut |-> fut, comb |-> comb, leaf |-> leaf, que |-> que, mio |-> mio,
     hist |-> hist]

Terminal == {FUTURE_COMPLETED, FUTURE_FAILURE}

\* ------------------------------------------------------------ ready queue

futque_create(max_size) ==
    [futs |-> [i \in 0 .. max_size - 1 |-> NoFut],
     size |-> 0,
     max_size |-> max_size,
     front |-> 0,
     back |-> -1]

isEmpty(q) == q.size = 0

\* Mutant: the queue counts as full one element early.
push_full_early(q, f) ==
    IF q.size + 1 >= q.max_size
    THEN q
    ELSE LET b == (q.back + 1) % q.max_size
         IN  [q EXCEPT !.back = b, !.futs[b] = f, !.size = @ + 1]

\* Mutant: no test for a full queue.
push_unchecked(q, f) ==
    LET b == (q.back + 1) % q.max_size
    IN  [q EXCEPT !.back = b, !.futs[b] = f, !.size = @ + 1]

push(q, f) ==
    IF q.size = q.max_size
    THEN q
    ELSE LET b == (q.back + 1) % q.max_size
         IN  [q EXCEPT !.back = b, !.futs[b] = f, !.size = @ + 1]

\* Mutant: front is not advanced.
pop_front_stuck(q) ==
    IF isEmpty(q)
    THEN [fut |-> NoFut, q |-> q]
    ELSE [fut |-> q.futs[q.front], q |-> [q EXCEPT !.size = @ - 1]]

\* pop returns the future taken (NoFut on an empty queue) and the queue left.
pop(q) ==
    IF isEmpty(q)
    THEN [fut |-> NoFut, q |-> q]
    ELSE [fut |-> q.futs[q.front],
          q |-> [q EXCEPT !.front = (@ + 1) % q.max_size, !.size = @ - 1]]

\* The futures on the queue, oldest first: the slots from front, size of them.
QueueSeq(q) == [i \in 1 .. q.size |-> q.futs[(q.front + i - 1) % q.max_size]]

\* ------------------------------------------------------- history (ghost)

\* No Completed or Failure return yet.
NoOutcome == [res |-> "none", ok |-> NULL, errcode |-> FUTURE_SUCCESS]

\* No call of mio_register or mio_unregister on a descriptor yet.
NoMioCall == [op |-> "none"]

HistInit ==
    [firstArg |-> [f \in Futures |-> NULL],
     last |-> [f \in Futures |-> "none"],
     reprog |-> [f \in Futures |-> {}],
     step |-> [f \in Futures |-> "skipped"],
     owed |-> {},
     order |-> << >>,
     live |-> [f \in Futures |-> "never"],
     lastPop |-> [got |-> NoFut, want |-> NoFut],
     fullPush |-> FALSE,
     fullPushSame |-> TRUE,
     woken |-> FALSE,
     misuse |-> FALSE,
     calls |-> [f \in Futures |-> 0],
     tagAt |-> [f \in Futures |-> "none"],
     first |-> [f \in Futures |-> NoOutcome],
     outs |-> [f \in Futures |-> {}],
     wakerAt |-> [f \in Futures |-> NoFut],
     user |-> {},
     terms |-> [f \in Futures |-> 0]]

\* executor_spawn was called with f: q0 is the queue before, q1 after.
NoteSpawn(h, f, q0, q1) ==
    [h EXCEPT !.owed = @ \cup {f},
              !.order = IF q0.size < q0.max_size THEN Append(@, f) ELSE @,
              !.live[f] = "spawned",
              !.fullPush = @ \/ q0.size = q0.max_size,
              !.fullPushSame = @ /\ (q0.size = q0.max_size => q1 = q0)]

\* The drive loop popped f and is about to call its progress.
NotePop(h, f) ==
    [h EXCEPT !.step = [g \in Futures |-> "skipped"],
              !.calls = [g \in Futures |-> 0],
              !.tagAt = [g \in Futures |-> "none"],
              !.wakerAt = [g \in Futures |-> NoFut],
              !.owed = @ \ {f},
              !.lastPop = [got |-> f,
                           want |-> IF h.order = << >> THEN NoFut
                                    ELSE Head(h.order)],
              !.order = IF @ = << >> THEN @ ELSE Tail(@)]

\* progress of f is called with the given arg.
NoteCall(h, f, arg) ==
    [h EXCEPT !.calls[f] = @ + 1,
              !.firstArg[f] = IF h.last[f] # "none" THEN @ ELSE arg,
              !.reprog[f] = IF h.last[f] \in Terminal
                            THEN @ \cup {h.last[f]} ELSE @]

\* progress of f returned res.
NoteReturn(h, f, res) == [h EXCEPT !.last[f] = res, !.step[f] = res]

\* progress of f is called while the tag of the SelectFuture is tag.
NoteTag(h, f, tag) == [h EXCEPT !.tagAt[f] = tag]

\* progress of f is called with the given waker.
NoteWaker(h, f, waker) == [h EXCEPT !.wakerAt[f] = waker.future]

\* The user, not a waker, called executor_spawn with f.
NoteUser(h, f) == [h EXCEPT !.user = @ \cup {f}]

\* Completed or Failure returns of a future are counted up to this many.
Twice == 2

\* progress of f returned res, with the given ok and errcode in its Future.
NoteOutcome(h, f, res, ok, errcode) ==
    IF res \in Terminal
    THEN [h EXCEPT !.first[f] = IF @.res = "none"
                                THEN [res |-> res, ok |-> ok,
                                      errcode |-> errcode]
                                ELSE @,
                   !.outs[f] = @ \cup {res},
                   !.terms[f] = IF @ < Twice THEN @ + 1 ELSE @]
    ELSE h

\* op (mio_register or mio_unregister) was called on fd, for the future
\* cookie, with the reactor as in before; it left the reactor as in r.mio and
\* returned r.rc.
NoteMio(h, op, fd, cookie, before, r) ==
    [h EXCEPT !.mioCall[fd] = [op |-> op, cookie |-> cookie, before |-> before,
                               after |-> r.mio, rc |-> r.rc]]

\* The progress call the drive loop made on f returned res.
NoteDriven(h, f, res) ==
    [h EXCEPT !.live[f] = IF res \in Terminal THEN "terminal" ELSE @]

\* mio_poll dispatched an event.
NoteWoken(h) == [h EXCEPT !.woken = TRUE]

\* A caller broke its contract: the user spawned a future again after it was
\* done, or a leaf did not keep to the protocol of LeafKeepsContract.
NoteMisuse(h, broke) == [h EXCEPT !.misuse = @ \/ broke]

\* ---------------------------------------------------------------- executor

\* executor_spawn: mark the future active and push it.
executor_spawn(s, f) ==
    LET q1 == push(s.que, f)
    IN  [s EXCEPT !.fut[f].is_active = TRUE,
                  !.que = q1,
                  !.hist = NoteSpawn(@, f, s.que, q1)]

\* A waker is the pair (executor, future); there is one executor.
waker_wake(s, waker) == executor_spawn(s, waker.future)

\* ----------------------------------------------------------------- reactor

\* Mutant: a failure of epoll_ctl is not looked at.
mio_register_count_anyway(m, fd, waker) ==
    IF m.epoll[fd] # NoFut
    THEN [mio |-> [m EXCEPT !.registered_count = @ + 1], rc |-> 0]
    ELSE [mio |-> [m EXCEPT !.epoll[fd] = waker.future,
                            !.registered_count = @ + 1],
          rc |-> 0]

\* epoll_ctl(EPOLL_CTL_ADD) fails with EEXIST on a registered descriptor.
mio_register(m, fd, waker) ==
    IF m.epoll[fd] # NoFut
    THEN [mio |-> m, rc |-> -1]
    ELSE [mio |-> [m EXCEPT !.epoll[fd] = waker.future,
                            !.registered_count = @ + 1],
          rc |-> 0]

\* epoll_ctl(EPOLL_CTL_DEL) fails with ENOENT on an unregistered descriptor.
mio_unregister(m, fd) ==
    IF m.epoll[fd] = NoFut
    THEN [mio |-> m, rc |-> -1]
    ELSE [mio |-> [m EXCEPT !.epoll[fd] = NoFut,
                            !.registered_count = @ - 1],
          rc |-> 0]

\* The loop of mio_poll over the events epoll_wait returned, from event i on.
RECURSIVE poll_dispatch(_, _, _)
poll_dispatch(s, events, i) ==
    IF i > Len(events)
    THEN s
    ELSE poll_dispatch(
             waker_wake([s EXCEPT !.hist = NoteWoken(@)],
                        [future |-> s.mio.epoll[events[i]]]),
             events, i + 1)

\* Mutant: the events are not dispatched.
mio_poll_no_dispatch(s, events) == s

\* mio_poll with epoll_wait returning the given events.
mio_poll(s, events) ==
    IF s.mio.registered_count = 0
    THEN s
    ELSE poll_dispatch(s, events, 1)

\* ------------------------------------------------------------ leaf futures

\* One progress call of leaf l doing c.  A leaf that has returned Completed or
\* Failure stays there: progressed again it returns the same state and does
\* nothing else.
\* The protocol of a leaf (spec section 5, wake arrangement): it returns Pending
\* with its descriptor registered, registering it at the first such return, and
\* returns Completed or Failure with it unregistered; it does not call its waker.
LeafKeepsContract(l, m, c) ==
    LET registered == m.epoll[FdOf(l)] # NoFut
    IN  IF c.res = FUTURE_PENDING
        THEN \/ c.act = "register" /\ ~registered
             \/ c.act = "none" /\ registered
        ELSE \/ c.act = "unregister" /\ registered
             \/ c.act = "none" /\ ~registered

leaf_progress(l, s, waker, c) ==
    IF s.leaf[l] # FUTURE_PENDING
    THEN [s |-> s, res |-> s.leaf[l]]
    ELSE LET s1 == [s EXCEPT !.hist =
                        NoteMisuse(@, ~LeafKeepsContract(l, s.mio, c))]
             s2 == CASE c.act = "register" ->
                         [s1 EXCEPT !.mio = mio_register(@, FdOf(l), waker).mio]
                      [] c.act = "unregister" ->
                         [s1 EXCEPT !.mio = mio_unregister(@, FdOf(l)).mio]
                      [] c.act = "wake" -> waker_wake(s1, waker)
                      [] OTHER -> s1
             s3 == CASE c.res = FUTURE_COMPLETED ->
                         [s2 EXCEPT !.leaf[l] = FUTURE_COMPLETED,
                                    !.fut[l].ok = LeafOk(l)]
                      [] c.res = FUTURE_FAILURE ->
                         [s2 EXCEPT !.leaf[l] = FUTURE_FAILURE,
                                    !.fut[l].errcode = LeafErr(l)]
                      [] OTHER -> s2
         IN  [s |-> s3, res |-> c.res]

\* What the leaves in L can do in one outer progress call.  A leaf that is
\* done does nothing, whatever it is asked.
Idle == [act |-> "none", res |-> FUTURE_PENDING]

ChoicesFor(l, lf) == IF lf[l] # FUTURE_PENDING THEN {Idle} ELSE LeafChoices

\* What leaf l can do in one progress call of a future with the leaves L
\* below it: nothing when it is not one of them.
ChoicesIn(L, l, lf) == IF l \in L THEN ChoicesFor(l, lf) ELSE {Idle}

\* What C can do in a call in which A does a and B does b.  In the nested
\* program C is the fut2 of K = future_then(N, C) over N = future_then(A, B):
\* it is not progressed in a call in which A or B returns Pending, and then
\* does nothing.
ChoicesAfter(L, lf, a, b) ==
    IF /\ "C" \in L
       /\ lf["A"] # FUTURE_PENDING \/ a.res # FUTURE_PENDING
       /\ lf["B"] # FUTURE_PENDING \/ b.res # FUTURE_PENDING
    THEN ChoicesFor("C", lf)
    ELSE {Idle}

\* What each of the leaves L does in one progress call.
ChoicesOf(L, a, b, c) ==
    [l \in L |-> IF l = "A" THEN a ELSE IF l = "B" THEN b ELSE c]

\* What a leaf of the nested ThenFutures adds to its arg to make its ok.
ChainIncs == {1, 2}

\* The leaf of the nested ThenFutures that plays a, b or c.
ChainRole(l) ==
    CASE l \in {"La", "Ra"} -> "a"
      [] l \in {"Lb", "Rb"} -> "b"
      [] l \in {"Lc", "Rc"} -> "c"

\* One progress call of a leaf of the nested ThenFutures: it never fails,
\* returns Pending a given number of times, and then completes with an ok
\* computed from its arg.  It registers nothing and calls no waker.
chain_leaf_progress(l, s) ==
    IF s.leaf[l].state # FUTURE_PENDING
    THEN [s |-> s, res |-> s.leaf[l].state]
    ELSE IF s.leaf[l].pend > 0
    THEN [s |-> [s EXCEPT !.leaf[l].pend = @ - 1], res |-> FUTURE_PENDING]
    ELSE [s |-> [s EXCEPT !.leaf[l].state = FUTURE_COMPLETED,
                          !.fut[l].ok = s.fut[l].arg + s.leaf[l].inc],
          res |-> FUTURE_COMPLETED]

\* ------------------------------------------------------------- combinators

RECURSIVE progress(_, _, _, _)

\* Mutant: the failure of fut2 is reported with the code of fut1.
then_second_wrong_code(base, s, waker, ch) ==
    LET r2 == progress(Fut2(base), s, waker, ch)
    IN  IF r2.res = FUTURE_PENDING
        THEN [s |-> r2.s, res |-> FUTURE_PENDING]
        ELSE IF r2.res = FUTURE_FAILURE
        THEN [s |-> [r2.s EXCEPT
                        !.fut[base].errcode = THEN_FUTURE_ERR_FUT1_FAILED],
              res |-> FUTURE_FAILURE]
        ELSE [s |-> [r2.s EXCEPT !.fut[base].ok = r2.s.fut[Fut2(base)].ok],
              res |-> FUTURE_COMPLETED]

\* Mutant: fut2 is progressed with a waker that names fut2.
then_second_child_waker(base, s, waker, ch) ==
    LET r2 == progress(Fut2(base), s, [future |-> Fut2(base)], ch)
    IN  IF r2.res = FUTURE_PENDING
        THEN [s |-> r2.s, res |-> FUTURE_PENDING]
        ELSE IF r2.res = FUTURE_FAILURE
        THEN [s |-> [r2.s EXCEPT
                        !.fut[base].errcode = THEN_FUTURE_ERR_FUT2_FAILED],
              res |-> FUTURE_FAILURE]
        ELSE [s |-> [r2.s EXCEPT !.fut[base].ok = r2.s.fut[Fut2(base)].ok],
              res |-> FUTURE_COMPLETED]

\* then_progress from "Now progress the second future" on.
then_second(base, s, waker, ch) ==
    LET r2 == progress(Fut2(base), s, waker, ch)
    IN  IF r2.res = FUTURE_PENDING
        THEN [s |-> r2.s, res |-> FUTURE_PENDING]
        ELSE IF r2.res = FUTURE_FAILURE
        THEN [s |-> [r2.s EXCEPT
                        !.fut[base].errcode = THEN_FUTURE_ERR_FUT2_FAILED],
              res |-> FUTURE_FAILURE]
        ELSE [s |-> [r2.s EXCEPT !.fut[base].ok = r2.s.fut[Fut2(base)].ok],
              res |-> FUTURE_COMPLETED]

\* Mutant: fut1_completed is never set.
then_progress_no_flag(base, s, waker, ch) ==
    LET r1 == progress(Fut1(base), s, waker, ch)
    IN  IF r1.res = FUTURE_PENDING
        THEN [s |-> r1.s, res |-> FUTURE_PENDING]
        ELSE IF r1.res = FUTURE_FAILURE
        THEN [s |-> [r1.s EXCEPT
                        !.fut[base].errcode = THEN_FUTURE_ERR_FUT1_FAILED],
              res |-> FUTURE_FAILURE]
        ELSE then_second(
                 base,
                 [r1.s EXCEPT !.fut[Fut2(base)].arg = r1.s.fut[Fut1(base)].ok],
                 waker, ch)

then_progress(base, s, waker, ch) ==
    IF ~s.comb[base].fut1_completed
    THEN LET r1 == progress(Fut1(base), s, waker, ch)
         IN  IF r1.res = FUTURE_PENDING
             THEN [s |-> r1.s, res |-> FUTURE_PENDING]
             ELSE IF r1.res = FUTURE_FAILURE
             THEN [s |-> [r1.s EXCEPT
                             !.fut[base].errcode = THEN_FUTURE_ERR_FUT1_FAILED],
                   res |-> FUTURE_FAILURE]
             ELSE then_second(
                      base,
                      [r1.s EXCEPT !.comb[base].fut1_completed = TRUE,
                                   !.fut[Fut2(base)].arg =
                                       r1.s.fut[Fut1(base)].ok],
                      waker, ch)
    ELSE then_second(base, s, waker, ch)

future_then ==
    [base |-> [is_active |-> FALSE, arg |-> NULL, ok |-> NULL,
               errcode |-> FUTURE_SUCCESS],
     comb |-> [fut1_completed |-> FALSE]]

\* Mutant: the child is progressed whether or not it is done.
join_child_always(base, s, waker, ch, n) ==
    LET child == IF n = 1 THEN Fut1(base) ELSE Fut2(base)
        r == progress(child, s, waker, ch)
        snap == CASE r.res = FUTURE_COMPLETED ->
                      [ok |-> r.s.fut[child].ok, errcode |-> FUTURE_SUCCESS]
                   [] r.res = FUTURE_FAILURE ->
                      [ok |-> NULL, errcode |-> r.s.fut[child].errcode]
                   [] OTHER -> NULL
    IN  IF r.res = FUTURE_PENDING
        THEN r.s
        ELSE IF n = 1
        THEN [r.s EXCEPT !.comb[base].fut1_completed = r.res,
                         !.comb[base].result.fut1 = snap]
        ELSE [r.s EXCEPT !.comb[base].fut2_completed = r.res,
                         !.comb[base].result.fut2 = snap]

\* join_progress: the step on child n (1 or 2).
join_child(base, s, waker, ch, n) ==
    LET child == IF n = 1 THEN Fut1(base) ELSE Fut2(base)
        done == IF n = 1 THEN s.comb[base].fut1_completed
                ELSE s.comb[base].fut2_completed
    IN  IF done # FUTURE_PENDING
        THEN s
        ELSE LET r == progress(child, s, waker, ch)
                 snap == CASE r.res = FUTURE_COMPLETED ->
                               [ok |-> r.s.fut[child].ok,
                                errcode |-> FUTURE_SUCCESS]
                            [] r.res = FUTURE_FAILURE ->
                               [ok |-> NULL,
                                errcode |-> r.s.fut[child].errcode]
                            [] OTHER -> NULL
             IN  IF r.res = FUTURE_PENDING
                 THEN r.s
                 ELSE IF n = 1
                 THEN [r.s EXCEPT !.comb[base].fut1_completed = r.res,
                                  !.comb[base].result.fut1 = snap]
                 ELSE [r.s EXCEPT !.comb[base].fut2_completed = r.res,
                                  !.comb[base].result.fut2 = snap]

\* Mutant: a failure of fut2 alone is reported with the code of fut1.
join_progress_one_code(base, s, waker, ch) ==
    LET s1 == join_child(base, s, waker, ch, 1)
        s2 == join_child(base, s1, waker, ch, 2)
        c == s2.comb[base]
    IN  IF c.fut1_completed = FUTURE_PENDING \/ c.fut2_completed = FUTURE_PENDING
        THEN [s |-> s2, res |-> FUTURE_PENDING]
        ELSE IF c.fut1_completed = FUTURE_FAILURE
                /\ c.fut2_completed = FUTURE_FAILURE
        THEN [s |-> [s2 EXCEPT
                        !.fut[base].errcode = JOIN_FUTURE_ERR_BOTH_FUTS_FAILED],
              res |-> FUTURE_FAILURE]
        ELSE IF c.fut1_completed = FUTURE_FAILURE
                \/ c.fut2_completed = FUTURE_FAILURE
        THEN [s |-> [s2 EXCEPT
                        !.fut[base].errcode = JOIN_FUTURE_ERR_FUT1_FAILED],
              res |-> FUTURE_FAILURE]
        ELSE [s |-> [s2 EXCEPT !.fut[base].ok = c.result.fut1.ok],
              res |-> FUTURE_COMPLETED]

join_progress(base, s, waker, ch) ==
    LET s1 == join_child(base, s, waker, ch, 1)
        s2 == join_child(base, s1, waker, ch, 2)
        c == s2.comb[base]
    IN  IF c.fut1_completed = FUTURE_PENDING \/ c.fut2_completed = FUTURE_PENDING
        THEN [s |-> s2, res |-> FUTURE_PENDING]
        ELSE IF c.fut1_completed = FUTURE_FAILURE
                /\ c.fut2_completed = FUTURE_FAILURE
        THEN [s |-> [s2 EXCEPT
                        !.fut[base].errcode = JOIN_FUTURE_ERR_BOTH_FUTS_FAILED],
              res |-> FUTURE_FAILURE]
        ELSE IF c.fut1_completed = FUTURE_FAILURE
        THEN [s |-> [s2 EXCEPT
                        !.fut[base].errcode = JOIN_FUTURE_ERR_FUT1_FAILED],
              res |-> FUTURE_FAILURE]
        ELSE IF c.fut2_completed = FUTURE_FAILURE
        THEN [s |-> [s2 EXCEPT
                        !.fut[base].errcode = JOIN_FUTURE_ERR_FUT2_FAILED],
              res |-> FUTURE_FAILURE]
        ELSE [s |-> [s2 EXCEPT !.fut[base].ok = c.result.fut1.ok],
              res |-> FUTURE_COMPLETED]

\* future_join leaves base.is_active and base.arg unset: is_active is whatever
\* the storage held.
future_join(active) ==
    [base |-> [is_active |-> active, arg |-> NULL, ok |-> NULL,
               errcode |-> FUTURE_SUCCESS],
     comb |-> [fut1_completed |-> FUTURE_PENDING,
               fut2_completed |-> FUTURE_PENDING,
               result |-> [fut1 |-> [ok |-> NULL, errcode |-> FUTURE_SUCCESS],
                           fut2 |-> [ok |-> NULL, errcode |-> FUTURE_SUCCESS]]]]

\* select_progress: the step on child n (1 or 2), for a child whose progress
\* is due.  done is set when select_progress returns from within the step.
select_child(base, s, waker, ch, n) ==
    LET child == IF n = 1 THEN Fut1(base) ELSE Fut2(base)
        other == IF n = 1 THEN SELECT_FAILED_FUT2 ELSE SELECT_FAILED_FUT1
        r == progress(child, s, waker, ch)
    IN  IF r.res = FUTURE_COMPLETED
        THEN [s |-> [r.s EXCEPT
                        !.comb[base].which_completed =
                            IF n = 1 THEN SELECT_COMPLETED_FUT1
                            ELSE SELECT_COMPLETED_FUT2,
                        !.fut[base].ok = r.s.fut[child].ok],
              done |-> TRUE]
        ELSE IF r.res = FUTURE_FAILURE
        THEN [s |-> [r.s EXCEPT
                        !.comb[base].which_completed =
                            IF @ = other THEN SELECT_FAILED_BOTH
                            ELSE IF n = 1 THEN SELECT_FAILED_FUT1
                            ELSE SELECT_FAILED_FUT2],
              done |-> FALSE]
        ELSE [s |-> r.s, done |-> FALSE]

\* Mutant: a select completed by fut2 takes its ok from fut1 when progressed
\* again.
select_progress_other_ok(base, s, waker, ch) ==
    LET w == s.comb[base].which_completed
    IN  IF w = SELECT_COMPLETED_FUT1 \/ w = SELECT_COMPLETED_FUT2
        THEN [s |-> [s EXCEPT !.fut[base].ok = s.fut[Fut1(base)].ok],
              res |-> FUTURE_COMPLETED]
        ELSE IF w = SELECT_FAILED_BOTH
        THEN [s |-> [s EXCEPT !.fut[base].errcode = s.fut[Fut1(base)].errcode],
              res |-> FUTURE_FAILURE]
        ELSE LET r1 == IF w = SELECT_COMPLETED_NONE \/ w = SELECT_FAILED_FUT2
                       THEN select_child(base, s, waker, ch, 1)
                       ELSE [s |-> s, done |-> FALSE]
             IN  IF r1.done
                 THEN [s |-> r1.s, res |-> FUTURE_COMPLETED]
                 ELSE LET w1 == r1.s.comb[base].which_completed
                          r2 == IF w1 = SELECT_COMPLETED_NONE
                                   \/ w1 = SELECT_FAILED_FUT1
                                THEN select_child(base, r1.s, waker, ch, 2)
                                ELSE [s |-> r1.s, done |-> FALSE]
                      IN  IF r2.done
                          THEN [s |-> r2.s, res |-> FUTURE_COMPLETED]
                          ELSE [s |-> r2.s, res |-> FUTURE_PENDING]

\* Mutant: fut1 is progressed whatever the tag, short of the early returns.
select_progress_retry(base, s, waker, ch) ==
    LET w == s.comb[base].which_completed
    IN  IF w = SELECT_COMPLETED_FUT1
        THEN [s |-> [s EXCEPT !.fut[base].ok = s.fut[Fut1(base)].ok],
              res |-> FUTURE_COMPLETED]
        ELSE IF w = SELECT_COMPLETED_FUT2
        THEN [s |-> [s EXCEPT !.fut[base].ok = s.fut[Fut2(base)].ok],
              res |-> FUTURE_COMPLETED]
        ELSE IF w = SELECT_FAILED_BOTH
        THEN [s |-> [s EXCEPT !.fut[base].errcode = s.fut[Fut1(base)].errcode],
              res |-> FUTURE_FAILURE]
        ELSE LET r1 == select_child(base, s, waker, ch, 1)
             IN  IF r1.done
                 THEN [s |-> r1.s, res |-> FUTURE_COMPLETED]
                 ELSE LET w1 == r1.s.comb[base].which_completed
                          r2 == IF w1 = SELECT_COMPLETED_NONE
                                   \/ w1 = SELECT_FAILED_FUT1
                                THEN select_child(base, r1.s, waker, ch, 2)
                                ELSE [s |-> r1.s, done |-> FALSE]
                      IN  IF r2.done
                          THEN [s |-> r2.s, res |-> FUTURE_COMPLETED]
                          ELSE [s |-> r2.s, res |-> FUTURE_PENDING]

select_progress(base, s, waker, ch) ==
    LET w == s.comb[base].which_completed
    IN  IF w = SELECT_COMPLETED_FUT1
        THEN [s |-> [s EXCEPT !.fut[base].ok = s.fut[Fut1(base)].ok],
              res |-> FUTURE_COMPLETED]
        ELSE IF w = SELECT_COMPLETED_FUT2
        THEN [s |-> [s EXCEPT !.fut[base].ok = s.fut[Fut2(base)].ok],
              res |-> FUTURE_COMPLETED]
        ELSE IF w = SELECT_FAILED_BOTH
        THEN [s |-> [s EXCEPT !.fut[base].errcode = s.fut[Fut1(base)].errcode],
              res |-> FUTURE_FAILURE]
        ELSE LET r1 == IF w = SELECT_COMPLETED_NONE \/ w = SELECT_FAILED_FUT2
                       THEN select_child(base, s, waker, ch, 1)
                       ELSE [s |-> s, done |-> FALSE]
             IN  IF r1.done
                 THEN [s |-> r1.s, res |-> FUTURE_COMPLETED]
                 ELSE LET w1 == r1.s.comb[base].which_completed
                          r2 == IF w1 = SELECT_COMPLETED_NONE
                                   \/ w1 = SELECT_FAILED_FUT1
                                THEN select_child(base, r1.s, waker, ch, 2)
                                ELSE [s |-> r1.s, done |-> FALSE]
                      IN  IF r2.done
                          THEN [s |-> r2.s, res |-> FUTURE_COMPLETED]
                          ELSE [s |-> r2.s, res |-> FUTURE_PENDING]

\* What an unset errcode can hold.
UnsetErrcodes == {FUTURE_SUCCESS, 77}

\* future_select sets none of the base fields but progress: is_active and
\* errcode are whatever the storage held (arg and ok are not read before they
\* are written).
future_select(active, err) ==
    [base |-> [is_active |-> active, arg |-> NULL, ok |-> NULL,
               errcode |-> err],
     comb |-> [which_completed |-> SELECT_COMPLETED_NONE]]

\* The values a constructor can return.
Constructed(k) ==
    CASE k \in JoinKinds -> {future_join(active) : active \in BOOLEAN}
      [] k = "select" -> {future_select(active, err) :
                            active \in BOOLEAN, err \in UnsetErrcodes}
      [] OTHER -> {future_then}

\* The element of a set of one element.
The(S) == CHOOSE x \in S : TRUE

\* fut->progress(fut, mio, waker): the call through the function pointer.  ch
\* gives what each leaf reached by the call does.  The callee runs once: its
\* result r is one value, from which the return is built.
progress(f, s, waker, ch) ==
    LET tag == IF kind = "select" THEN s.comb["K"].which_completed
               ELSE "none"
        s0 == [s EXCEPT !.hist =
                  NoteWaker(NoteTag(NoteCall(@, f, s.fut[f].arg), f, tag),
                            f, waker)]
        Return(r) ==
            [s |-> [r.s EXCEPT !.hist =
                       NoteOutcome(NoteReturn(@, f, r.res), f, r.res,
                                   r.s.fut[f].ok, r.s.fut[f].errcode)],
             res |-> r.res]
    IN  The({Return(r) : r \in {
            CASE f \in Leaves -> leaf_progress(f, s0, waker, ch[f])
              [] f \in ChainLeaves -> chain_leaf_progress(f, s0)
              [] KindOf(f) = "then" -> then_progress(f, s0, waker, ch)
              [] KindOf(f) \in JoinKinds -> join_progress(f, s0, waker, ch)
              [] KindOf(f) = "select" -> select_progress(f, s0, waker, ch)}})

\* --------------------------------------------------------------- drive loop

\* Mutant: is_active is cleared whatever progress returned.
drain_step_clear_always(s, ch) ==
    LET p == pop(s.que)
        f == p.fut
        s0 == [s EXCEPT !.que = p.q, !.hist = NotePop(@, f)]
        r == progress(f, s0, [future |-> f], ch)
        s1 == [r.s EXCEPT !.hist = NoteDriven(@, f, r.res)]
    IN  [s1 EXCEPT !.fut[f].is_active = FALSE]

\* Mutant: is_active is cleared on Completed only.
drain_step_keep_failed(s, ch) ==
    LET p == pop(s.que)
        f == p.fut
        s0 == [s EXCEPT !.que = p.q, !.hist = NotePop(@, f)]
        r == progress(f, s0, [future |-> f], ch)
        s1 == [r.s EXCEPT !.hist = NoteDriven(@, f, r.res)]
    IN  IF r.res = FUTURE_COMPLETED
        THEN [s1 EXCEPT !.fut[f].is_active = FALSE]
        ELSE s1

\* One iteration of the inner loop of executor_run: pop, progress, and clear
\* is_active on Completed or Failure.
drain_step(s, ch) ==
    LET p == pop(s.que)
        f == p.fut
        s0 == [s EXCEPT !.que = p.q, !.hist = NotePop(@, f)]
        r == progress(f, s0, [future |-> f], ch)
        s1 == [r.s EXCEPT !.hist = NoteDriven(@, f, r.res)]
    IN  IF r.res = FUTURE_COMPLETED \/ r.res = FUTURE_FAILURE
        THEN [s1 EXCEPT !.fut[f].is_active = FALSE]
        ELSE s1

\* The test of the outer loop of executor_run: run on, or return.
outer_test(q) == IF isEmpty(q) THEN "returned" ELSE "drain"

\* The batches epoll_wait can return: at least one and at most MAX_EVENTS
\* events, one per ready descriptor, among the registered descriptors.
Registered(m) == {fd \in Fds : m.epoll[fd] # NoFut}

Batches(m) ==
    {e \in UNION {[1 .. n -> Registered(m)] :
                    n \in 1 .. IF Cardinality(Registered(m)) < MAX_EVENTS
                               THEN Cardinality(Registered(m))
                               ELSE MAX_EVENTS} :
        \A i, j \in DOMAIN e : i # j => e[i] # e[j]}

mio_create == [registered_count |-> 0, epoll |-> [fd \in Fds |-> NoFut]]

\* ------------------------------------------------------------ specification

LeafInit == [is_active |-> FALSE, arg |-> NULL, ok |-> NULL,
             errcode |-> FUTURE_SUCCESS]

Init ==
    /\ kind \in Kinds
    /\ \E k \in Constructed(KindOf("K")), n \in Constructed(KindOf("N")) :
         /\ fut = [f \in Futures |->
                     IF f \in Leaves THEN LeafInit
                     ELSE IF f = "N" THEN n.base ELSE k.base]
         /\ comb = [f \in Futures \ Leaves |->
                      IF f = "N" THEN n.comb ELSE k.comb]
    /\ leaf = [l \in Leaves |-> FUTURE_PENDING]
    /\ \E max_queue_size \in 1 .. MaxCap : que = futque_create(max_queue_size)
    /\ mio = mio_create
    /\ pc = "idle"
    /\ hist = HistInit

\* The program moves to the state s, which is computed once.
Set(s) ==
    \E t \in {s} :
      /\ fut' = t.fut
      /\ comb' = t.comb
      /\ leaf' = t.leaf
      /\ que' = t.que
      /\ mio' = t.mio
      /\ hist' = t.hist

\* The user calls executor_spawn, outside executor_run, on a future that is
\* not active (the precondition of spawn: not spawned before, or done).
Spawn(f) ==
    /\ pc \in {"idle", "returned"}
    /\ hist.live[f] # "spawned"
    /\ Set(executor_spawn(
               [State EXCEPT !.hist =
                   NoteUser(NoteMisuse(@, hist.live[f] # "never"), f)], f))
    /\ pc' = "idle"
    /\ UNCHANGED kind

\* The user calls executor_run: the first test of the outer loop.
RunEnter ==
    /\ pc \in {"idle", "returned"}
    /\ pc' = outer_test(que)
    /\ UNCHANGED <<kind, fut, comb, leaf, que, mio, hist>>

DrainStep ==
    /\ pc = "drain"
    /\ ~isEmpty(que)
    /\ LET L == LeavesOf(kind, que.futs[que.front])
       IN  \E a \in ChoicesIn(L, "A", leaf), b \in ChoicesIn(L, "B", leaf) :
             \E c \in ChoicesAfter(L, leaf, a, b) :
               Set(drain_step(State, ChoicesOf(L, a, b, c)))
    /\ UNCHANGED <<kind, pc>>

\* mio_poll with nothing registered returns at once, and the outer loop tests
\* the queue.
PollReturn ==
    /\ pc = "drain"
    /\ isEmpty(que)
    /\ mio.registered_count = 0
    /\ Set(mio_poll(State, << >>))
    /\ pc' = outer_test(que')
    /\ UNCHANGED kind

\* mio_poll blocks in epoll_wait until it returns a batch of events, wakes
\* their futures, and the outer loop tests the queue.
PollWake ==
    /\ pc = "drain"
    /\ isEmpty(que)
    /\ mio.registered_count # 0
    /\ \E events \in Batches(mio) : Set(mio_poll(State, events))
    /\ pc' = outer_test(que')
    /\ UNCHANGED kind

\* epoll_wait fails: mio_poll destroys the reactor and exits the process.
PollFatal ==
    /\ pc = "drain"
    /\ isEmpty(que)
    /\ mio.registered_count # 0
    /\ pc' = "exited"
    /\ UNCHANGED <<kind, fut, comb, leaf, que, mio, hist>>

Next ==
    \/ \E f \in RootsOf(kind) : Spawn(f)
    \/ RunEnter
    \/ DrainStep
    \/ PollReturn
    \/ PollWake
    \/ PollFatal

Spec == Init /\ [][Next]_vars

\* ------------------------------------- specification: nested ThenFutures

\* The two nestings are built over leaves that behave alike copy by copy, and
\* nothing has been progressed.
ChainInit ==
    /\ kind = "then"
    /\ fut = [f \in ChainFutures |->
                IF f \in ChainLeaves THEN LeafInit ELSE future_then.base]
    /\ comb = [f \in ChainThens |-> future_then.comb]
    /\ \E pend \in [{"a", "b", "c"} -> 0 .. MaxPend],
          inc \in [{"a", "b", "c"} -> ChainIncs] :
         leaf = [l \in ChainLeaves |->
                   [state |-> FUTURE_PENDING,
                    pend |-> pend[ChainRole(l)],
                    inc |-> inc[ChainRole(l)]]]
    /\ que = futque_create(1)
    /\ mio = mio_create
    /\ pc = "idle"
    /\ hist = [firstArg |-> [f \in ChainFutures |-> NULL],
               last |-> [f \in ChainFutures |-> "none"],
               reprog |-> [f \in ChainFutures |-> {}],
               step |-> [f \in ChainFutures |-> "skipped"],
               calls |-> [f \in ChainFutures |-> 0],
               tagAt |-> [f \in ChainFutures |-> "none"],
               first |-> [f \in ChainFutures |-> NoOutcome],
               outs |-> [f \in ChainFutures |-> {}],
               wakerAt |-> [f \in ChainFutures |-> NoFut],
               terms |-> [f \in ChainFutures |-> 0]]

\* The caller progresses the root f of a nesting once more, as long as it has
\* not returned Completed or Failure.
ChainDrive(f) ==
    /\ hist.last[f] \notin Terminal
    /\ Set(progress(f, State, [future |-> f], << >>).s)
    /\ UNCHANGED <<kind, pc>>

ChainNext == \E f \in ChainRoots : ChainDrive(f)

SpecThenChain == ChainInit /\ [][ChainNext]_vars

\* ------------------------------------------- specification: the reactor

\* A reactor just created, used by callers that register and unregister
\* descriptors in any order, whether or not the call is in order.
ReactorInit ==
    /\ kind = "none"
    /\ fut = [f \in Futures |-> LeafInit]
    /\ comb = [f \in Futures \ Leaves |-> future_then.comb]
    /\ leaf = [l \in Leaves |-> FUTURE_PENDING]
    /\ que = futque_create(1)
    /\ mio = mio_create
    /\ pc = "idle"
    /\ hist = [mioCall |-> [fd \in Fds |-> NoMioCall]]

ReactorRegister(fd, f) ==
    LET r == mio_register(mio, fd, [future |-> f])
    IN  /\ mio' = r.mio
        /\ hist' = NoteMio(hist, "mio_register", fd, f, mio, r)
        /\ UNCHANGED <<kind, fut, comb, leaf, que, pc>>

ReactorUnregister(fd) ==
    LET r == mio_unregister(mio, fd)
    IN  /\ mio' = r.mio
        /\ hist' = NoteMio(hist, "mio_unregister", fd, NoFut, mio, r)
        /\ UNCHANGED <<kind, fut, comb, leaf, que, pc>>

ReactorNext ==
    \/ \E fd \in Fds, f \in Futures : ReactorRegister(fd, f)
    \/ \E fd \in Fds : ReactorUnregister(fd)

SpecReactor == ReactorInit /\ [][ReactorNext]_vars

\* ------------------------------------------------------------- properties

Roots == RootsOf(kind)

NoDuplicates(q) ==
    \A i, j \in 1 .. q.size : i # j => QueueSeq(q)[i] # QueueSeq(q)[j]

\* C1 (claim): a future whose progress, called by the drive loop, has returned
\* Completed or Failure is never progressed by the drive loop again.  Stated
\* here for the runs in which the user spawns each future once and every leaf
\* keeps its contract (registers when it returns Pending, unregisters before
\* it returns Completed or Failure, never calls its waker).
C1_NeverProgressedAgain ==
    ~hist.misuse => \A f \in Roots : hist.reprog[f] = {}

\* C2: executor_run returns only when no descriptor is registered: in a state
\* where run has returned, registered_count is 0 and the interest list is
\* empty.
C2_ReturnsUnregistered ==
    pc = "returned" => mio.registered_count = 0 /\ Registered(mio) = {}

\* C2 witness: run has returned after mio_poll had woken a future for a
\* registered descriptor.
C2_Witness ==
    pc = "returned" /\ hist.woken /\ \E l \in Leaves : leaf[l] \in Terminal

\* C3 (claim): when run returns, every future passed to executor_spawn has been
\* progressed since.
C3_AllSpawnedProgressed == pc = "returned" => hist.owed = {}

\* C3 (amended): when run returns, every future that executor_spawn enqueued
\* (the queue was not full at the call) has been progressed since.
C3_EnqueuedProgressed == pc = "returned" => hist.order = << >>

\* C3 witness: run has returned, a push was dropped by a full queue, and an
\* enqueued future was progressed.
C3_Witness ==
    /\ pc = "returned"
    /\ hist.fullPush
    /\ hist.owed # {}
    /\ \E f \in Roots : hist.last[f] # "none"

\* C4 (claim): no future occupies two slots of the ready queue.  Stated here
\* for the runs in which the user and the leaves keep their contract.
C4_NoDuplicates == ~hist.misuse => NoDuplicates(que)

ValidIndex(q, i) == i \in 0 .. q.max_size - 1

\* C5 (claim): size is within 0 .. capacity, front and back are valid indices of
\* the buffer, and a push on a full queue changes nothing.
C5_QueueBounds ==
    /\ que.size \in 0 .. que.max_size
    /\ ValidIndex(que, que.front)
    /\ ValidIndex(que, que.back)
    /\ hist.fullPushSame

\* C5 (amended): size is within 0 .. capacity, front is a valid index, back is
\* -1 until the first push and a valid index from then on, and a push on a full
\* queue changes nothing.
C5_QueueBoundsFromFirstPush ==
    /\ que.size \in 0 .. que.max_size
    /\ ValidIndex(que, que.front)
    /\ IF \A f \in Futures : hist.live[f] = "never"
       THEN que.back = -1
       ELSE ValidIndex(que, que.back)
    /\ hist.fullPushSame

\* C5 witness: a push has met a full queue, after the indices wrapped around.
C5_Witness == hist.fullPush /\ que.size = que.max_size /\ que.back < que.front

\* C6: the drive loop progresses futures in the order they were enqueued: the
\* queue read from front holds the enqueued futures not yet progressed, oldest
\* first, and every pop returned the oldest of them.  A future woken during its
\* own progress call is appended behind all of them.
C6_Fifo ==
    /\ QueueSeq(que) = hist.order
    /\ hist.lastPop.got = hist.lastPop.want

\* C6 witness: the future progressed last was woken during that progress call
\* and sits at the tail, behind another future, in a queue that has wrapped
\* around the end of the buffer.
C6_Witness ==
    /\ pc = "drain"
    /\ que.size >= 2
    /\ que.back < que.front
    /\ hist.lastPop.got \in hist.owed
    /\ hist.step[hist.lastPop.got] = FUTURE_PENDING
    /\ QueueSeq(que)[que.size] = hist.lastPop.got
    /\ QueueSeq(que)[1] # hist.lastPop.got

InQueue(q, f) == \E i \in 1 .. q.size : QueueSeq(q)[i] = f

RegisteredFor(m, f) == \E fd \in Fds : m.epoll[fd] = f

\* C7: executor_run returns exactly when the ready queue is empty after the
\* drain and mio_poll finds nothing registered (so adds nothing); when it has
\* returned, a future whose last progress returned Pending is still marked
\* is_active although nothing is left to progress or wake it.
C7_ReturnsWhenQuiescent ==
    /\ [](pc = "returned" =>
            /\ isEmpty(que)
            /\ mio.registered_count = 0
            /\ \A f \in Roots :
                 hist.last[f] = FUTURE_PENDING =>
                     fut[f].is_active /\ ~RegisteredFor(mio, f))
    /\ [][pc = "drain" =>
            /\ pc' = "returned" <=> isEmpty(que) /\ mio.registered_count = 0
            /\ pc' = "returned" => que' = que]_vars

\* C7 witness: run has returned leaving behind a future that returned Pending.
C7_Witness ==
    /\ pc = "returned"
    /\ \E f \in Roots : hist.last[f] = FUTURE_PENDING /\ fut[f].is_active

\* C8 (claim): for a future spawned on the executor, is_active is true exactly
\* when it is on the ready queue or a descriptor is registered against it, and
\* false once its progress has returned Completed or Failure.
C8_ActiveIffQueuedOrRegistered ==
    \A f \in Roots :
        hist.live[f] # "never" =>
            /\ fut[f].is_active <=> InQueue(que, f) \/ RegisteredFor(mio, f)
            /\ hist.last[f] \in Terminal => ~fut[f].is_active

\* C8 (amended): for a future spawned on the executor, is_active is true exactly
\* from a call of executor_spawn on it (by the user or by a wake, whether the
\* push succeeded or not) until the next Completed or Failure return of its
\* progress in the drive loop.
C8_ActiveSinceSpawn ==
    \A f \in Roots :
        hist.live[f] # "never" =>
            (fut[f].is_active <=> hist.live[f] = "spawned")

\* C8 witness: a future has returned Failure and is_active is cleared, while
\* another is marked is_active though neither queued nor registered.
C8_Witness ==
    \E f, g \in Roots :
        /\ hist.last[f] = FUTURE_FAILURE
        /\ hist.live[f] = "terminal"
        /\ ~fut[f].is_active
        /\ fut[g].is_active
        /\ ~InQueue(que, g)
        /\ ~RegisteredFor(mio, g)

\* C9: in a ThenFuture, fut2 is progressed only after fut1 has returned
\* Completed; fut1.ok is copied to fut2.arg at that transition, not before, and
\* is what fut2 sees at its first progress; fut1 is never progressed after it
\* returned Completed.
C9_ThenSequencing ==
    kind = "then" =>
        /\ hist.last["B"] # "none" =>
              /\ comb["K"].fut1_completed
              /\ hist.last["A"] = FUTURE_COMPLETED
              /\ hist.firstArg["B"] = fut["A"].ok
              /\ hist.firstArg["B"] = LeafOk("A")
        /\ comb["K"].fut1_completed <=> hist.last["A"] = FUTURE_COMPLETED
        /\ fut["B"].arg = IF comb["K"].fut1_completed THEN fut["A"].ok ELSE NULL
        /\ FUTURE_COMPLETED \notin hist.reprog["A"]

\* C9 witness: an outer progress call that skipped fut1, completed earlier, and
\* in which fut2 returned Pending again.
C9_Witness ==
    /\ kind = "then"
    /\ comb["K"].fut1_completed
    /\ hist.step["A"] = "skipped"
    /\ hist.step["B"] = FUTURE_PENDING
    /\ hist.step["K"] = FUTURE_PENDING
    /\ hist.reprog["K"] = {}

\* C10: the result of a ThenFuture's progress call follows from what its
\* children returned in the call: fut1 Failure gives Failure with
\* THEN_FUTURE_ERR_FUT1_FAILED and fut2 never progressed; fut2 Failure gives
\* Failure with THEN_FUTURE_ERR_FUT2_FAILED; fut2 Completed gives Completed with
\* the ok of fut2; Pending exactly when the child progressed last returned
\* Pending.
C10_ThenOutcome ==
    kind = "then" /\ hist.step["K"] # "skipped" =>
        LET s1 == hist.step["A"]
            s2 == hist.step["B"]
            r == hist.step["K"]
        IN  /\ s1 = FUTURE_FAILURE =>
                  /\ r = FUTURE_FAILURE
                  /\ fut["K"].errcode = THEN_FUTURE_ERR_FUT1_FAILED
                  /\ s2 = "skipped"
                  /\ hist.last["B"] = "none"
            /\ s2 = FUTURE_FAILURE =>
                  /\ r = FUTURE_FAILURE
                  /\ fut["K"].errcode = THEN_FUTURE_ERR_FUT2_FAILED
                  /\ hist.last["A"] = FUTURE_COMPLETED
            /\ s2 = FUTURE_COMPLETED =>
                  /\ r = FUTURE_COMPLETED
                  /\ fut["K"].ok = fut["B"].ok
                  /\ fut["K"].ok = LeafOk("B")
                  /\ hist.last["A"] = FUTURE_COMPLETED
            /\ r = FUTURE_PENDING <=>
                  \/ s2 = FUTURE_PENDING
                  \/ s2 = "skipped" /\ s1 = FUTURE_PENDING

\* C10 witness: fut1 completed in an earlier call and fut2 fails in this one.
C10_Witness ==
    /\ kind = "then"
    /\ hist.step["A"] = "skipped"
    /\ hist.step["B"] = FUTURE_FAILURE
    /\ hist.step["K"] = FUTURE_FAILURE
    /\ fut["K"].errcode = THEN_FUTURE_ERR_FUT2_FAILED

\* ---------------------------------------------------------- JoinFuture

\* What join_progress caches of a child whose first Completed or Failure
\* return was o: the state, and the ok / errcode pair.
JoinCached(o) ==
    [state |-> IF o.res = "none" THEN FUTURE_PENDING ELSE o.res,
     result |-> IF o.res = FUTURE_FAILURE
                THEN [ok |-> NULL, errcode |-> o.errcode]
                ELSE [ok |-> o.ok, errcode |-> FUTURE_SUCCESS]]

\* Child c of a JoinFuture was due in the outer progress call under way: it
\* had not returned Completed or Failure in an earlier call.
JoinDue(c) == hist.last[c] \notin Terminal \/ hist.step[c] \in Terminal

\* C11: in every outer progress call of a JoinFuture each child is progressed
\* at most once; a child is progressed exactly when it has not returned
\* Completed or Failure in an earlier call (so fut2 is progressed in the same
\* call as fut1, whatever fut1 returned); and what the join caches of a child
\* (state, ok, errcode) is what the child's first Completed or Failure return
\* gave, never overwritten.
C11_JoinChildren ==
    kind \in JoinKinds =>
        /\ \A c \in Leaves :
              /\ hist.calls[c] <= 1
              /\ hist.reprog[c] = {}
              /\ hist.calls["K"] >= 1 =>
                    (hist.calls[c] = 1 <=> JoinDue(c))
        /\ hist.step[Fut1("K")] # "skipped" /\ JoinDue(Fut2("K")) =>
              hist.step[Fut2("K")] # "skipped"
        /\ comb["K"].fut1_completed = JoinCached(hist.first[Fut1("K")]).state
        /\ comb["K"].result.fut1 = JoinCached(hist.first[Fut1("K")]).result
        /\ comb["K"].fut2_completed = JoinCached(hist.first[Fut2("K")]).state
        /\ comb["K"].result.fut2 = JoinCached(hist.first[Fut2("K")]).result

\* C11 witness: fut1 failed in an earlier call and is skipped in this one, in
\* which fut2 completes; the cached errcode of fut1 is the one it failed with.
C11_Witness ==
    /\ kind = "join"
    /\ hist.step["A"] = "skipped"
    /\ hist.first["A"].res = FUTURE_FAILURE
    /\ hist.step["B"] = FUTURE_COMPLETED
    /\ hist.step["K"] = FUTURE_FAILURE
    /\ comb["K"].result.fut1.errcode = LeafErr("A")
    /\ comb["K"].result.fut2.ok = LeafOk("B")

\* The result of a join whose children have returned x (fut1) and y (fut2),
\* each Completed or Failure: the state returned and the errcode set.
JoinOutcome(x, y) ==
    CASE x = FUTURE_FAILURE /\ y = FUTURE_FAILURE ->
           [res |-> FUTURE_FAILURE, errcode |-> JOIN_FUTURE_ERR_BOTH_FUTS_FAILED]
      [] x = FUTURE_FAILURE /\ y = FUTURE_COMPLETED ->
           [res |-> FUTURE_FAILURE, errcode |-> JOIN_FUTURE_ERR_FUT1_FAILED]
      [] x = FUTURE_COMPLETED /\ y = FUTURE_FAILURE ->
           [res |-> FUTURE_FAILURE, errcode |-> JOIN_FUTURE_ERR_FUT2_FAILED]
      [] OTHER ->
           [res |-> FUTURE_COMPLETED, errcode |-> FUTURE_SUCCESS]

\* The FUT1 and FUT2 codes exchanged.
JoinSwapCode(e) ==
    CASE e = JOIN_FUTURE_ERR_FUT1_FAILED -> JOIN_FUTURE_ERR_FUT2_FAILED
      [] e = JOIN_FUTURE_ERR_FUT2_FAILED -> JOIN_FUTURE_ERR_FUT1_FAILED
      [] OTHER -> e

\* C12: a progress call of a JoinFuture returns Pending exactly when a child
\* has not yet returned Completed or Failure; otherwise it returns the fixed
\* function of what the two children returned: both Failure gives Failure with
\* JOIN_FUTURE_ERR_BOTH_FUTS_FAILED, fut1 alone FUT1_FAILED, fut2 alone
\* FUT2_FAILED, both Completed gives Completed with the ok of fut1.  This holds
\* of future_join(A, B) and of future_join(B, A), and the function gives the
\* same state with the FUT1 / FUT2 codes exchanged when the children are.
C12_JoinOutcome ==
    kind \in JoinKinds /\ hist.step["K"] # "skipped" =>
        LET o1 == hist.first[Fut1("K")]
            o2 == hist.first[Fut2("K")]
            r == hist.step["K"]
        IN  /\ r = FUTURE_PENDING <=> o1.res = "none" \/ o2.res = "none"
            /\ r # FUTURE_PENDING =>
                  /\ r = JoinOutcome(o1.res, o2.res).res
                  /\ r = FUTURE_FAILURE =>
                        fut["K"].errcode = JoinOutcome(o1.res, o2.res).errcode
                  /\ r = FUTURE_COMPLETED =>
                        /\ fut["K"].ok = o1.ok
                        /\ fut["K"].ok = LeafOk(Fut1("K"))
            /\ \A x, y \in Terminal :
                  /\ JoinOutcome(y, x).res = JoinOutcome(x, y).res
                  /\ JoinOutcome(y, x).errcode =
                        JoinSwapCode(JoinOutcome(x, y).errcode)

\* C12 witness: future_join(B, A) fails with FUT2_FAILED on the failure of A
\* alone, B having completed in an earlier call.
C12_Witness ==
    /\ kind = "join_swapped"
    /\ hist.step["K"] = FUTURE_FAILURE
    /\ hist.step["A"] = FUTURE_FAILURE
    /\ hist.step["B"] = "skipped"
    /\ hist.first["B"].res = FUTURE_COMPLETED
    /\ fut["K"].errcode = JOIN_FUTURE_ERR_FUT2_FAILED

\* -------------------------------------------------------- SelectFuture

\* C13: in a SelectFuture, a child whose progress has returned Failure is never
\* progressed again; fut1 is progressed only when the tag is None or
\* FailedFut2, fut2 only when the tag, after the step on fut1, is None or
\* FailedFut1; and in a call in which fut1 returns Completed fut2 is not
\* progressed.
C13_SelectChildren ==
    kind = "select" =>
        /\ \A c \in Leaves : FUTURE_FAILURE \notin hist.reprog[c]
        /\ hist.calls["A"] >= 1 =>
              hist.tagAt["A"] \in {SELECT_COMPLETED_NONE, SELECT_FAILED_FUT2}
        /\ hist.calls["B"] >= 1 =>
              hist.tagAt["B"] \in {SELECT_COMPLETED_NONE, SELECT_FAILED_FUT1}
        /\ hist.step["A"] = FUTURE_COMPLETED => hist.calls["B"] = 0

\* C13 witness: fut1 failed in an earlier call; in this one it is skipped and
\* fut2, progressed under the tag FailedFut1, returns Pending.
C13_Witness ==
    /\ kind = "select"
    /\ hist.last["A"] = FUTURE_FAILURE
    /\ hist.calls["A"] = 0
    /\ hist.calls["B"] = 1
    /\ hist.tagAt["B"] = SELECT_FAILED_FUT1
    /\ hist.step["B"] = FUTURE_PENDING
    /\ hist.step["K"] = FUTURE_PENDING

\* C14 (claim): both children failing is a terminal outcome of a select.  A
\* progress call made once both children have returned Failure returns Failure
\* with the errcode of fut1; and when the select is spawned on the executor
\* and its children have both failed, leaving no descriptor registered, then
\* once executor_run has returned the select has returned Failure and its
\* is_active is cleared.  Stated for the runs in which the user and the leaves
\* keep their contract.
C14_BothFailedTerminal ==
    /\ kind = "select"
    /\ ~hist.misuse
    /\ hist.last["A"] = FUTURE_FAILURE
    /\ hist.last["B"] = FUTURE_FAILURE
    =>
    /\ hist.tagAt["K"] = SELECT_FAILED_BOTH =>
          /\ hist.step["K"] = FUTURE_FAILURE
          /\ fut["K"].errcode = fut["A"].errcode
    /\ pc = "returned" =>
          /\ hist.last["K"] = FUTURE_FAILURE
          /\ ~fut["K"].is_active

SelectCompleted == {SELECT_COMPLETED_FUT1, SELECT_COMPLETED_FUT2}

\* C15: completion of a select is idempotent.  A progress call made with the
\* tag CompletedFut1 or CompletedFut2 returns Completed, leaves the tag as it
\* was and progresses neither child; and as long as the tag is one of the two,
\* the ok of the select is the one it had at its first Completed return.
C15_SelectIdempotent ==
    kind = "select" =>
        /\ hist.tagAt["K"] \in SelectCompleted =>
              /\ hist.step["K"] = FUTURE_COMPLETED
              /\ comb["K"].which_completed = hist.tagAt["K"]
              /\ hist.calls["A"] = 0
              /\ hist.calls["B"] = 0
        /\ comb["K"].which_completed \in SelectCompleted =>
              /\ hist.first["K"].res = FUTURE_COMPLETED
              /\ fut["K"].ok = hist.first["K"].ok
              /\ hist.outs["K"] = {FUTURE_COMPLETED}

\* C15 witness: a select completed by fut2 is progressed again and returns
\* Completed with the ok of fut2.
C15_Witness ==
    /\ kind = "select"
    /\ hist.tagAt["K"] = SELECT_COMPLETED_FUT2
    /\ hist.step["K"] = FUTURE_COMPLETED
    /\ FUTURE_COMPLETED \in hist.reprog["K"]
    /\ fut["K"].ok = LeafOk("B")

\* ------------------------------------------------------------ ThenFuture

\* C16 (claim): Then is observationally associative.  Over leaves a, b, c that
\* never fail, once then(then(a, b), c) and then(a, then(b, c)) have both been
\* driven to a Completed or Failure return, they have returned the same state
\* with the same ok, and b and c saw the same arg at their first progress in
\* the one as in the other.
C16_ThenAssociative ==
    hist.last["L"] \in Terminal /\ hist.last["R"] \in Terminal =>
        /\ hist.last["L"] = hist.last["R"]
        /\ fut["L"].ok = fut["R"].ok
        /\ hist.firstArg["Lb"] = hist.firstArg["Rb"]
        /\ hist.firstArg["Lc"] = hist.firstArg["Rc"]

\* ------------------------------------------------------------ error codes

\* C17 (claim): for a Then, Join or Select future over leaves that keep the
\* same rule, a progress call that returned Completed leaves errcode equal to
\* FUTURE_SUCCESS, one that returned Failure leaves it different from
\* FUTURE_SUCCESS, and the future never returns Completed in one call and
\* Failure in another.
C17_ErrcodeMatchesOutcome ==
    kind # "none" =>
        /\ \A l \in Leaves :
              /\ hist.last[l] = FUTURE_COMPLETED =>
                    fut[l].errcode = FUTURE_SUCCESS
              /\ hist.last[l] = FUTURE_FAILURE =>
                    fut[l].errcode # FUTURE_SUCCESS
           =>
           /\ hist.last["K"] = FUTURE_COMPLETED =>
                 fut["K"].errcode = FUTURE_SUCCESS
           /\ hist.last["K"] = FUTURE_FAILURE =>
                 fut["K"].errcode # FUTURE_SUCCESS
        /\ Cardinality(hist.outs["K"]) <= 1

\* ---------------------------------------------------------------- reactor

\* C18: the interest list holds at most one registration per descriptor, and
\* registered_count is the number of registered descriptors (never negative).
\* A mio_register on an unregistered descriptor returns 0, adds its
\* registration and increments the count; a mio_unregister on a registered one
\* returns 0, removes it and decrements the count; a mio_register on a
\* registered descriptor and a mio_unregister on an unregistered one return a
\* negative value and leave the registrations and the count as they were.
C18_ReactorTable ==
    /\ mio.registered_count = Cardinality(Registered(mio))
    /\ mio.registered_count >= 0
    /\ \A fd \in Fds :
          LET c == hist.mioCall[fd]
          IN  /\ c.op = "mio_register" =>
                    IF fd \in Registered(c.before)
                    THEN c.rc < 0 /\ c.after = c.before
                    ELSE /\ c.rc = 0
                         /\ Registered(c.after) = Registered(c.before) \cup {fd}
                         /\ c.after.epoll =
                               [c.before.epoll EXCEPT ![fd] = c.cookie]
                         /\ c.after.registered_count =
                               c.before.registered_count + 1
              /\ c.op = "mio_unregister" =>
                    IF fd \notin Registered(c.before)
                    THEN c.rc < 0 /\ c.after = c.before
                    ELSE /\ c.rc = 0
                         /\ Registered(c.after) = Registered(c.before) \ {fd}
                         /\ c.after.epoll =
                               [c.before.epoll EXCEPT ![fd] = NoFut]
                         /\ c.after.registered_count =
                               c.before.registered_count - 1

\* C18 witness: the last call on descriptor 1 was a mio_register refused
\* because it was registered, the last on descriptor 2 a successful
\* mio_unregister, and one descriptor is left registered.
C18_Witness ==
    /\ hist.mioCall[1].op = "mio_register"
    /\ hist.mioCall[1].rc < 0
    /\ hist.mioCall[2].op = "mio_unregister"
    /\ hist.mioCall[2].rc = 0
    /\ mio.registered_count = 1

\* ----------------------------------------------------------------- wakers

\* The future the user spawns that leaf l is, or is below.
RootOver(l) == IF kind = "none" THEN l ELSE "K"

\* C19: the combinators hand the waker they were called with to every child:
\* in a pass of the drive loop every progress call, at any depth, gets the
\* waker naming the future the loop popped.  So the cookie of every
\* registered descriptor of a leaf is the spawned future the leaf is or is
\* below, and the ready queue, which readiness events fill from the cookies,
\* holds only futures the user passed to executor_spawn.
C19_WakerIsOutermost ==
    /\ \A f \in Futures :
          hist.calls[f] >= 1 => hist.wakerAt[f] = hist.lastPop.got
    /\ \A l \in Leaves :
          mio.epoll[FdOf(l)] # NoFut =>
              /\ mio.epoll[FdOf(l)] = RootOver(l)
              /\ mio.epoll[FdOf(l)] \in hist.user
    /\ \A i \in 1 .. que.size : QueueSeq(que)[i] \in hist.user

\* C19 witness: B, two levels below the spawned K = then(then(A, B), C), has
\* registered its descriptor and returned Pending; the descriptor became ready
\* and K is back on the ready queue.
C19_Witness ==
    /\ kind = "then_then"
    /\ hist.last["B"] = FUTURE_PENDING
    /\ hist.last["N"] = FUTURE_PENDING
    /\ mio.epoll[FdOf("B")] = "K"
    /\ hist.woken
    /\ pc = "drain"
    /\ InQueue(que, "K")
    /\ ~InQueue(que, "B")
    /\ ~InQueue(que, "N")

\* ------------------------------------------------------------ quiescence

\* C20 (claim): run drives well-behaved futures to quiescence.  When the user
\* has spawned at most capacity futures, each once, and every leaf keeps its
\* contract (Pending only with its descriptor registered, unregistered before
\* it returns Completed or Failure), then once executor_run has returned every
\* spawned future has returned Completed or Failure exactly once and has
\* is_active = false, the ready queue is empty and the registered count is 0.
C20_RunToQuiescence ==
    /\ pc = "returned"
    /\ ~hist.misuse
    /\ Cardinality(hist.user) <= que.max_size
    =>
    /\ \A f \in hist.user : hist.terms[f] = 1 /\ ~fut[f].is_active
    /\ isEmpty(que)
    /\ mio.registered_count = 0

====
